---------------------------- MODULE Spec2Model ----------------------------
(***************************************************************************)
(* DripCalculator: main (src/src/main.rs) fetches three historical series  *)
(* (the ticker, SPY, QQQ), runs the DRIP engine on each and prints the     *)
(* results and a comparison.  The modules data_provider, drip_engine and   *)
(* models are declared in main.rs (lines 6-8) but their code is not part   *)
(* of the sources; they are modelled from the specification (sections 3,   *)
(* 4.1, 6).                                                                *)
(*                                                                         *)
(* f64 values are modelled as exact rationals n/d extended with the IEEE   *)
(* specials +inf, -inf and NaN, so that a division by zero yields what the *)
(* hardware yields.  Rounding of the mantissa and signed zeros are not     *)
(* modelled.  annualized_return_pct (a fractional power) is not modelled.  *)
(***************************************************************************)
EXTENDS Integers, Sequences, FiniteSets

VARIABLES pc, end_date, start_date, stock_data, spy_data, qqq_data,
          stock_result, spy_result, qqq_result, steps, main_ret, output,
          sim_pc, sim_series, sim_investment, sim_idx, sim_acc, sim_trace,
          sim_result

mainVars == <<pc, end_date, start_date, stock_data, spy_data, qqq_data,
              stock_result, spy_result, qqq_result, steps, main_ret, output>>
simVars == <<sim_pc, sim_series, sim_investment, sim_idx, sim_acc, sim_trace,
             sim_result>>
vars == <<mainVars, simVars>>

----------------------------------------------------------------------------
(* Bounds of the model *)

\* end_date (today) ranges over day numbers 0..MaxDayOffset
MaxDayOffset == 1
\* the engine's series have at most MaxLen observations
MaxLen == 3
\* close_price ranges over 0..MaxPrice (0: an invalid price)
MaxPrice == 2
\* dividend_per_share ranges over 0..MaxDiv
MaxDiv == 1
\* the engine's initial investment ranges over 0..MaxInvestment
MaxInvestment == 1
\* final values handed to print_results range over 0..MaxValue
MaxValue == 3

----------------------------------------------------------------------------
(* f64 arithmetic *)

Abs(x) == IF x < 0 THEN -x ELSE x

RECURSIVE GCD(_, _)
GCD(a, b) == IF b = 0 THEN a ELSE GCD(b, a % b)

\* the finite value n/d, normalised (d > 0, lowest terms)
Fin(n, d) ==
    LET s == IF d < 0 THEN -1 ELSE 1
        g == GCD(Abs(n), Abs(d))
    IN [k |-> "fin", n |-> (s * n) \div g, d |-> (s * d) \div g]

PInf == [k |-> "inf", n |-> 1, d |-> 1]
NInf == [k |-> "inf", n |-> -1, d |-> 1]
NaN == [k |-> "nan", n |-> 0, d |-> 1]

Sign(x) == IF x.n > 0 THEN 1 ELSE IF x.n < 0 THEN -1 ELSE 0
InfOf(s) == IF s > 0 THEN PInf ELSE NInf

FAdd(x, y) ==
    IF x.k = "nan" \/ y.k = "nan" THEN NaN
    ELSE IF x.k = "inf" /\ y.k = "inf" THEN (IF x.n = y.n THEN x ELSE NaN)
    ELSE IF x.k = "inf" THEN x
    ELSE IF y.k = "inf" THEN y
    ELSE Fin(x.n * y.d + y.n * x.d, x.d * y.d)

FNeg(x) == [x EXCEPT !.n = -x.n]

FSub(x, y) == FAdd(x, FNeg(y))

FMul(x, y) ==
    IF x.k = "nan" \/ y.k = "nan" THEN NaN
    ELSE IF x.k = "inf" \/ y.k = "inf"
         THEN (IF Sign(x) * Sign(y) = 0 THEN NaN ELSE InfOf(Sign(x) * Sign(y)))
    ELSE Fin(x.n * y.n, x.d * y.d)

FDiv(x, y) ==
    IF x.k = "nan" \/ y.k = "nan" THEN NaN
    ELSE IF x.k = "inf" THEN (IF y.k = "inf" THEN NaN
                              ELSE InfOf(IF Sign(y) < 0 THEN -Sign(x) ELSE Sign(x)))
    ELSE IF y.k = "inf" THEN Fin(0, 1)
    ELSE IF y.n = 0 THEN (IF x.n = 0 THEN NaN ELSE InfOf(Sign(x)))
    ELSE Fin(x.n * y.d, x.d * y.n)

FLe(x, y) == x.k = "fin" /\ y.k = "fin" /\ x.n * y.d <= y.n * x.d

\* n/d rounded to the nearest integer, ties to even (d > 0)
RoundHalfEven(n, d) ==
    LET q == n \div d
        r == n % d
    IN IF 2 * r < d THEN q
       ELSE IF 2 * r > d THEN q + 1
       ELSE IF q % 2 = 0 THEN q ELSE q + 1

\* "{:.2}": two decimals (kept as a count of hundredths), or inf / -inf / NaN
Fmt2(x) ==
    IF x.k = "nan" THEN [txt |-> "NaN", hundredths |-> 0]
    ELSE IF x.k = "inf"
         THEN [txt |-> IF x.n > 0 THEN "inf" ELSE "-inf", hundredths |-> 0]
    ELSE [txt |-> "num",
          hundredths |-> (x.n \div x.d) * 100 + RoundHalfEven((x.n % x.d) * 100, x.d)]

----------------------------------------------------------------------------
(* Results and the values main passes around *)

Ok(v) == [tag |-> "Ok", val |-> v]
Err(e) == [tag |-> "Err", val |-> e]

Zero == Fin(0, 1)

\* models::Investment, the fields main.rs reads (lines 63-79, 85-96)
Investment(inv, shares, dividends, final, ret) ==
    [initial_investment |-> inv, total_shares |-> shares,
     total_dividends |-> dividends, final_value |-> final,
     total_return_pct |-> ret]

\* a binding that main never made (the `?` returned before the `let`)
NoSeries == [tag |-> "unset", val |-> [symbol |-> "", obs |-> <<>>]]
NoResult == [tag |-> "unset", val |-> Investment(Zero, Zero, Zero, Zero, Zero)]
NoOutput == [tag |-> "unset"]

Observation(p, dv) == [close_price |-> p, dividend_per_share |-> dv]

----------------------------------------------------------------------------
(* DRIP engine: drip_engine::DripCalculator::calculate_drip *)

Valid(series, inv) ==
    /\ Len(series) >= 1
    /\ inv > 0
    /\ \A i \in 1..Len(series) : series[i].close_price > 0

\* step 1: the initial purchase
InitialPurchase(series, inv) ==
    [shares |-> FDiv(Fin(inv, 1), Fin(series[1].close_price, 1)),
     total_dividends |-> Zero]

\* a dividend that removes the shares it should add
FoldStepSell(acc, obs) ==
    IF obs.dividend_per_share > 0
    THEN LET cash == FMul(acc.shares, Fin(obs.dividend_per_share, 1))
             new_shares == FDiv(cash, Fin(obs.close_price, 1))
         IN [shares |-> FSub(acc.shares, new_shares),
             total_dividends |-> FAdd(acc.total_dividends, cash)]
    ELSE acc

\* step 2: one observation of the fold
FoldStep(acc, obs) ==
    IF obs.dividend_per_share > 0
    THEN LET cash == FMul(acc.shares, Fin(obs.dividend_per_share, 1))
             new_shares == FDiv(cash, Fin(obs.close_price, 1))
         IN [shares |-> FAdd(acc.shares, new_shares),
             total_dividends |-> FAdd(acc.total_dividends, cash)]
    ELSE acc

RECURSIVE Fold(_, _, _)
Fold(acc, series, i) ==
    IF i > Len(series) THEN acc ELSE Fold(FoldStep(acc, series[i]), series, i + 1)

\* steps 3 and 4: final value and total return
Finish(series, inv, acc) ==
    LET final_value == FMul(acc.shares, Fin(series[Len(series)].close_price, 1))
        total_return_pct ==
            FMul(FDiv(FSub(final_value, Fin(inv, 1)), Fin(inv, 1)), Fin(100, 1))
    IN Investment(Fin(inv, 1), acc.shares, acc.total_dividends, final_value,
                  total_return_pct)

calculate_drip(series, inv) ==
    IF ~Valid(series, inv) THEN Err("ValidationError")
    ELSE Ok(Finish(series, inv, Fold(InitialPurchase(series, inv), series, 2)))

----------------------------------------------------------------------------
(* Series source: data_provider::YahooFinanceProvider::fetch_historical_data *)

\* section 8's scenarios, a single observation, and two invalid series
ScenarioA == <<Observation(100, 0), Observation(110, 0)>>
ScenarioB == <<Observation(100, 0), Observation(105, 1), Observation(110, 0)>>
SampleSeries ==
    {<<>>, <<Observation(100, 0)>>, ScenarioA, ScenarioB,
     <<Observation(100, 0), Observation(0, 1)>>}

FetchErrors == {"NotFound", "RangeUnavailable", "Unavailable"}

fetch_historical_data(symbol) ==
    {Err(e) : e \in FetchErrors}
        \cup {Ok([symbol |-> symbol, obs |-> s]) : s \in SampleSeries}

----------------------------------------------------------------------------
(* main *)

ticker == "AAPL"
initial_investment == 10000
years_back == 15

Dates == 0..MaxDayOffset

\* a window that counts a leap day every fourth year
StartDateLeap(e) == e - (365 * years_back + years_back \div 4)

\* let start_date = end_date - Duration::days(365 * years_back)
StartDate(e) == e - 365 * years_back

\* an error that is swallowed: the next step runs whatever the step returned
TryIgnore(r, next) == next

\* an error that is retried: the same step runs again
TryRetry(r, next) == IF r.tag = "Ok" THEN next ELSE pc

\* the `?` operator: go on when the step returned Ok, return its Err otherwise
Try(r, next) == IF r.tag = "Ok" THEN next ELSE "failed"

\* every call is given the ticker's series
CalcInputStock(slot) == stock_data

\* the series each calculate_drip call is given
CalcInput(slot) ==
    IF slot = "stock" THEN stock_data
    ELSE IF slot = "spy" THEN spy_data
    ELSE qqq_data

\* the difference taken the other way round
OutperformanceSwapped(stock, bench) == FSub(bench.final_value, stock.final_value)

\* let outperformance_spy = stock.final_value - spy.final_value (and _qqq)
Outperformance(stock, bench) == FSub(stock.final_value, bench.final_value)

\* (outperformance_spy / spy.final_value) * 100.0 (and qqq)
RelativePct(outperformance, bench) ==
    FMul(FDiv(outperformance, bench.final_value), Fin(100, 1))

\* one "{} vs SPY: ${:.2} ({:.2}%)" line
ComparisonLine(stock, bench) ==
    LET outperformance == Outperformance(stock, bench)
    IN [absolute_diff |-> Fmt2(outperformance),
        relative_diff_pct |-> Fmt2(RelativePct(outperformance, bench))]

\* one performance block
PerformanceLines(r) ==
    [final_value |-> Fmt2(r.final_value),
     total_return_pct |-> Fmt2(r.total_return_pct)]

print_results(stock, spy, qqq) ==
    [tag |-> "printed",
     stock |-> PerformanceLines(stock),
     spy |-> PerformanceLines(spy),
     qqq |-> PerformanceLines(qqq),
     vs_spy |-> ComparisonLine(stock, spy),
     vs_qqq |-> ComparisonLine(stock, qqq)]

\* lines 23-24
ComputeWindow ==
    /\ pc = "start"
    /\ \E today \in Dates :
          /\ end_date' = today
          /\ start_date' = StartDate(today)
    /\ pc' = "fetch_stock"
    /\ UNCHANGED <<stock_data, spy_data, qqq_data, stock_result, spy_result,
                   qqq_result, steps, main_ret, output, simVars>>

FetchCall(symbol, r) ==
    [op |-> "fetch", symbol |-> symbol, start |-> start_date, end |-> end_date,
     tag |-> r.tag, err |-> IF r.tag = "Err" THEN r.val ELSE ""]

\* line 34
FetchStock ==
    /\ pc = "fetch_stock"
    /\ \E r \in fetch_historical_data(ticker) :
          /\ stock_data' = IF r.tag = "Ok" THEN r ELSE stock_data
          /\ steps' = Append(steps, FetchCall(ticker, r))
          /\ pc' = Try(r, "fetch_spy")
          /\ main_ret' = IF pc' = "failed" THEN r ELSE main_ret
    /\ UNCHANGED <<end_date, start_date, spy_data, qqq_data, stock_result,
                   spy_result, qqq_result, output, simVars>>

\* line 35
FetchSpy ==
    /\ pc = "fetch_spy"
    /\ \E r \in fetch_historical_data("SPY") :
          /\ spy_data' = IF r.tag = "Ok" THEN r ELSE spy_data
          /\ steps' = Append(steps, FetchCall("SPY", r))
          /\ pc' = Try(r, "fetch_qqq")
          /\ main_ret' = IF pc' = "failed" THEN r ELSE main_ret
    /\ UNCHANGED <<end_date, start_date, stock_data, qqq_data, stock_result,
                   spy_result, qqq_result, output, simVars>>

\* line 36
FetchQqq ==
    /\ pc = "fetch_qqq"
    /\ \E r \in fetch_historical_data("QQQ") :
          /\ qqq_data' = IF r.tag = "Ok" THEN r ELSE qqq_data
          /\ steps' = Append(steps, FetchCall("QQQ", r))
          /\ pc' = Try(r, "calc_stock")
          /\ main_ret' = IF pc' = "failed" THEN r ELSE main_ret
    /\ UNCHANGED <<end_date, start_date, stock_data, spy_data, stock_result,
                   spy_result, qqq_result, output, simVars>>

CalcCall(slot, in, r) ==
    [op |-> "calc", symbol |-> slot, series |-> in,
     investment |-> initial_investment,
     tag |-> r.tag, err |-> IF r.tag = "Err" THEN r.val ELSE ""]

\* line 42
CalcStock ==
    /\ pc = "calc_stock"
    /\ LET in == CalcInput("stock")
           r == calculate_drip(in.val.obs, initial_investment)
       IN /\ stock_result' = IF r.tag = "Ok" THEN r ELSE stock_result
          /\ steps' = Append(steps, CalcCall("stock", in, r))
          /\ pc' = Try(r, "calc_spy")
          /\ main_ret' = IF pc' = "failed" THEN r ELSE main_ret
    /\ UNCHANGED <<end_date, start_date, stock_data, spy_data, qqq_data,
                   spy_result, qqq_result, output, simVars>>

\* line 43
CalcSpy ==
    /\ pc = "calc_spy"
    /\ LET in == CalcInput("spy")
           r == calculate_drip(in.val.obs, initial_investment)
       IN /\ spy_result' = IF r.tag = "Ok" THEN r ELSE spy_result
          /\ steps' = Append(steps, CalcCall("spy", in, r))
          /\ pc' = Try(r, "calc_qqq")
          /\ main_ret' = IF pc' = "failed" THEN r ELSE main_ret
    /\ UNCHANGED <<end_date, start_date, stock_data, spy_data, qqq_data,
                   stock_result, qqq_result, output, simVars>>

\* line 44
CalcQqq ==
    /\ pc = "calc_qqq"
    /\ LET in == CalcInput("qqq")
           r == calculate_drip(in.val.obs, initial_investment)
       IN /\ qqq_result' = IF r.tag = "Ok" THEN r ELSE qqq_result
          /\ steps' = Append(steps, CalcCall("qqq", in, r))
          /\ pc' = Try(r, "print")
          /\ main_ret' = IF pc' = "failed" THEN r ELSE main_ret
    /\ UNCHANGED <<end_date, start_date, stock_data, spy_data, qqq_data,
                   stock_result, spy_result, output, simVars>>

\* lines 47-49
PrintResults ==
    /\ pc = "print"
    /\ output' = print_results(stock_result.val, spy_result.val, qqq_result.val)
    /\ main_ret' = [tag |-> "Ok"]
    /\ pc' = "done"
    /\ UNCHANGED <<end_date, start_date, stock_data, spy_data, qqq_data,
                   stock_result, spy_result, qqq_result, steps, simVars>>

SimIdle ==
    /\ sim_pc = "idle" /\ sim_series = <<>> /\ sim_investment = 0
    /\ sim_idx = 0 /\ sim_acc = [shares |-> Zero, total_dividends |-> Zero]
    /\ sim_trace = <<>> /\ sim_result = NoResult

Init ==
    /\ pc = "start"
    /\ end_date = 0 /\ start_date = 0
    /\ stock_data = NoSeries /\ spy_data = NoSeries /\ qqq_data = NoSeries
    /\ stock_result = NoResult /\ spy_result = NoResult /\ qqq_result = NoResult
    /\ steps = <<>>
    /\ main_ret = [tag |-> "running"]
    /\ output = NoOutput
    /\ SimIdle

Next ==
    \/ ComputeWindow
    \/ FetchStock
    \/ FetchSpy
    \/ FetchQqq
    \/ CalcStock
    \/ CalcSpy
    \/ CalcQqq
    \/ PrintResults

Spec == Init /\ [][Next]_vars

----------------------------------------------------------------------------
(* print_results on arbitrary results *)

CompareValues ==
    {Fin(v, 1) : v \in 0..MaxValue} \cup {Fin(11000, 1), Fin(1110476, 100)}

InvestmentWorth(v) == Ok(Investment(Zero, Zero, Zero, v, Zero))

InitCompare ==
    /\ pc = "print"
    /\ end_date = 0 /\ start_date = 0
    /\ stock_data = NoSeries /\ spy_data = NoSeries /\ qqq_data = NoSeries
    /\ stock_result \in {InvestmentWorth(v) : v \in CompareValues}
    /\ spy_result \in {InvestmentWorth(v) : v \in CompareValues}
    /\ qqq_result \in {InvestmentWorth(v) : v \in CompareValues}
    /\ steps = <<>>
    /\ main_ret = [tag |-> "running"]
    /\ output = NoOutput
    /\ SimIdle

NextCompare == PrintResults

SpecCompare == InitCompare /\ [][NextCompare]_vars

----------------------------------------------------------------------------
(* calculate_drip, one observation at a time *)

Observations ==
    {Observation(p, dv) : p \in 0..MaxPrice, dv \in 0..MaxDiv}

EngineSeries == UNION {[1..n -> Observations] : n \in 0..MaxLen}

SimStart ==
    /\ sim_pc = "idle"
    /\ \E series \in EngineSeries, inv \in 0..MaxInvestment :
          /\ sim_series' = series
          /\ sim_investment' = inv
          /\ IF Valid(series, inv)
             THEN /\ sim_pc' = "fold"
                  /\ sim_acc' = InitialPurchase(series, inv)
                  /\ sim_idx' = 2
                  /\ sim_trace' = <<InitialPurchase(series, inv).shares>>
                  /\ sim_result' = sim_result
             ELSE /\ sim_pc' = "invalid"
                  /\ sim_result' = Err("ValidationError")
                  /\ UNCHANGED <<sim_acc, sim_idx, sim_trace>>
    /\ UNCHANGED mainVars

SimFoldStep ==
    /\ sim_pc = "fold"
    /\ sim_idx <= Len(sim_series)
    /\ sim_acc' = FoldStep(sim_acc, sim_series[sim_idx])
    /\ sim_trace' = Append(sim_trace, sim_acc'.shares)
    /\ sim_idx' = sim_idx + 1
    /\ UNCHANGED <<sim_pc, sim_series, sim_investment, sim_result, mainVars>>

SimFinish ==
    /\ sim_pc = "fold"
    /\ sim_idx > Len(sim_series)
    /\ sim_result' = Ok(Finish(sim_series, sim_investment, sim_acc))
    /\ sim_pc' = "done"
    /\ UNCHANGED <<sim_series, sim_investment, sim_idx, sim_acc, sim_trace,
                   mainVars>>

NextEngine ==
    \/ SimStart
    \/ SimFoldStep
    \/ SimFinish

SpecEngine == Init /\ [][NextEngine]_vars

\* the stepwise fold computes what calculate_drip returns
SimAgrees ==
    sim_pc \in {"done", "invalid"} =>
        /\ sim_result.tag = calculate_drip(sim_series, sim_investment).tag
        /\ sim_result.tag = "Ok" =>
              sim_result = calculate_drip(sim_series, sim_investment)

----------------------------------------------------------------------------
(* Properties *)

SlotSymbol(slot) ==
    IF slot = "stock" THEN ticker ELSE IF slot = "spy" THEN "SPY" ELSE "QQQ"

Slots == <<"stock", "spy", "qqq">>

IsFetch(i) == steps[i].op = "fetch"
IsCalc(i) == steps[i].op = "calc"
CalcOf(slot) == {i \in 1..Len(steps) : IsCalc(i) /\ steps[i].symbol = slot}
FetchOf(symbol) == {i \in 1..Len(steps) : IsFetch(i) /\ steps[i].symbol = symbol}
FailedCalc == {i \in 1..Len(steps) : IsCalc(i) /\ steps[i].tag = "Err"}
SlotData(slot) ==
    IF slot = "stock" THEN stock_data ELSE IF slot = "spy" THEN spy_data ELSE qqq_data
SlotResult(slot) ==
    IF slot = "stock" THEN stock_result
    ELSE IF slot = "spy" THEN spy_result
    ELSE qqq_result

\* C1: calculate_drip is never called for a symbol whose fetch returned an
\* error: every engine call is preceded by a successful fetch of its symbol,
\* and no fetch of that symbol failed.
C1_NoEngineOnFailedFetch ==
    \A i \in 1..Len(steps) :
        IsCalc(i) =>
            /\ \E j \in 1..(i - 1) :
                  /\ IsFetch(j)
                  /\ steps[j].symbol = SlotSymbol(steps[i].symbol)
                  /\ steps[j].tag = "Ok"
            /\ \A j \in FetchOf(SlotSymbol(steps[i].symbol)) : steps[j].tag = "Ok"
            /\ steps[i].series.tag = "Ok"

\* the QQQ fetch failed after two successful fetches, and main has ended
C1_Witness ==
    /\ pc = "failed"
    /\ Len(steps) = 3
    /\ steps[3].op = "fetch" /\ steps[3].tag = "Err"
    /\ stock_data.tag = "Ok" /\ spy_data.tag = "Ok"

\* C2 (as claimed): when a simulation returns an error, the other simulations
\* whose series were fetched successfully are still run.
C2_OthersStillRun ==
    pc \in {"done", "failed"} =>
        \A i \in FailedCalc :
            \A k \in 1..3 :
                (Slots[k] # steps[i].symbol /\ SlotData(Slots[k]).tag = "Ok")
                    => CalcOf(Slots[k]) # {}

\* C2 (amended): a simulation that returns an error is the last step main
\* runs: main ends with that error, the simulations ordered before it have
\* completed, and those ordered after it are never run.
C2_FailureEndsMain ==
    \A i \in FailedCalc :
        /\ i = Len(steps)
        /\ pc = "failed"
        /\ main_ret.tag = "Err"
        /\ \A k \in 1..3 :
              LET own == CHOOSE m \in 1..3 : Slots[m] = steps[i].symbol
              IN /\ k < own => /\ \E j \in CalcOf(Slots[k]) : steps[j].tag = "Ok"
                               /\ SlotResult(Slots[k]).tag = "Ok"
                 /\ k > own => /\ CalcOf(Slots[k]) = {}
                               /\ SlotResult(Slots[k]).tag = "unset"

\* the ticker's simulation failed while SPY's and QQQ's series were fetched
C2_Witness ==
    /\ pc = "failed"
    /\ Len(steps) = 4
    /\ steps[4].op = "calc" /\ steps[4].tag = "Err"
    /\ spy_data.tag = "Ok" /\ qqq_data.tag = "Ok"
    /\ Valid(spy_data.val.obs, initial_investment)

\* C3: the comparison is computed only from three completed simulations:
\* whenever print_results has run, each of the three simulations has been
\* run, has returned Ok, and its result is the one bound in main.
C3_ComparisonAfterAllThree ==
    output.tag = "printed" =>
        \A k \in 1..3 :
            /\ SlotResult(Slots[k]).tag = "Ok"
            /\ \E j \in CalcOf(Slots[k]) : steps[j].tag = "Ok"
            /\ SlotResult(Slots[k]) =
                  calculate_drip(SlotData(Slots[k]).val.obs, initial_investment)

\* the comparison has been printed for three different results
C3_Witness ==
    /\ output.tag = "printed"
    /\ stock_data.val.obs = ScenarioB
    /\ spy_data.val.obs = ScenarioA
    /\ Len(qqq_data.val.obs) = 1

\* C6 (as claimed): when a later simulation fails after an earlier one has
\* produced a result, the result already computed is still reported.
C6_ComputedResultReported ==
    (pc = "failed" /\ FailedCalc # {} /\ stock_result.tag = "Ok")
        => output.tag = "printed"

\* C6 (amended): when a simulation fails, main returns its error and nothing
\* is reported: print_results is not called, and the results already computed
\* for earlier symbols are dropped.
C6_FailureReportsNothing ==
    FailedCalc # {} => (output = NoOutput /\ main_ret.tag = "Err")

\* QQQ's simulation failed after the ticker's and SPY's produced results
C6_Witness ==
    /\ pc = "failed"
    /\ Len(steps) = 6
    /\ steps[6].tag = "Err"
    /\ stock_result.tag = "Ok" /\ spy_result.tag = "Ok"

\* C7: calculate_drip is called at most once per symbol (exactly once each
\* when main returns Ok), each call is given the series fetched for its own
\* symbol and initial_investment = 10000, every fetch precedes every engine
\* call, and the report is printed only after the three engine calls.
C7_OncePerTickerIndependently ==
    /\ \A k \in 1..3 : Cardinality(CalcOf(Slots[k])) <= 1
    /\ \A i \in 1..Len(steps) :
          IsCalc(i) =>
              /\ steps[i].series.tag = "Ok"
              /\ steps[i].series.val.symbol = SlotSymbol(steps[i].symbol)
              /\ steps[i].series = SlotData(steps[i].symbol)
              /\ steps[i].investment = 10000
              /\ \A j \in 1..Len(steps) : IsFetch(j) => j < i
    /\ main_ret.tag = "Ok" => \A k \in 1..3 : Cardinality(CalcOf(Slots[k])) = 1
    /\ output.tag = "printed" => \A k \in 1..3 : CalcOf(Slots[k]) # {}

\* main has returned Ok on three different series
C7_Witness ==
    /\ pc = "done"
    /\ main_ret.tag = "Ok"
    /\ stock_data.val.obs = ScenarioA
    /\ spy_data.val.obs = ScenarioB
    /\ qqq_data.val.obs = ScenarioA

\* C9: the window is exactly 365 * 15 = 5475 days: start_date is end_date
\* minus 5475 days, strictly before end_date, and every fetch is passed this
\* (start_date, end_date) pair.
C9_DateWindow ==
    pc # "start" =>
        /\ end_date - start_date = 5475
        /\ start_date < end_date
        /\ \A i \in 1..Len(steps) :
              IsFetch(i) => /\ steps[i].start = end_date - 5475
                            /\ steps[i].end = end_date

\* the three fetches have been made
C9_Witness ==
    /\ \A k \in 1..3 : FetchOf(SlotSymbol(Slots[k])) # {}
    /\ end_date = MaxDayOffset

ExpectedStep(i) ==
    IF i <= 3 THEN [op |-> "fetch", symbol |-> SlotSymbol(Slots[i])]
    ELSE [op |-> "calc", symbol |-> Slots[i - 3]]

\* C10: main is fail-fast and strictly ordered: the steps run in the order
\* fetch(ticker), fetch(SPY), fetch(QQQ), simulate(ticker), simulate(SPY),
\* simulate(QQQ), each at most once; only the last step run can have failed,
\* and then main has ended with that step's error and printed nothing;
\* print_results runs and main returns Ok exactly when all six succeeded.
C10_FailFastOrdered ==
    /\ Len(steps) <= 6
    /\ \A i \in 1..Len(steps) :
          /\ steps[i].op = ExpectedStep(i).op
          /\ steps[i].symbol = ExpectedStep(i).symbol
          /\ i < Len(steps) => steps[i].tag = "Ok"
    /\ pc = "failed" <=> (Len(steps) >= 1 /\ steps[Len(steps)].tag = "Err")
    /\ pc = "failed" =>
          /\ main_ret.tag = "Err"
          /\ main_ret.val = steps[Len(steps)].err
          /\ output = NoOutput
    /\ (Len(steps) = 6 /\ steps[6].tag = "Ok") <=> pc \in {"print", "done"}
    /\ output.tag = "printed" <=> pc = "done"
    /\ main_ret.tag = "Ok" <=> pc = "done"

\* SPY's simulation failed after four successful steps
C10_Witness ==
    /\ pc = "failed"
    /\ Len(steps) = 5
    /\ steps[5].op = "calc" /\ steps[5].symbol = "spy" /\ steps[5].tag = "Err"
    /\ main_ret.val = "ValidationError"

\* C4 (as claimed): when a benchmark's final_value is 0, its comparison line
\* does not report the outcome of a division by zero (inf, -inf or NaN put
\* through the percentage format).
C4_ZeroBenchmarkSignaled ==
    output.tag = "printed" =>
        /\ spy_result.val.final_value.n = 0 =>
              \A q \in {PInf, NInf, NaN} : output.vs_spy.relative_diff_pct # Fmt2(q)
        /\ qqq_result.val.final_value.n = 0 =>
              \A q \in {PInf, NInf, NaN} : output.vs_qqq.relative_diff_pct # Fmt2(q)

\* n/d in hundredths, to the nearest, ties to even (d > 0)
Hundredths(n, d) == (n \div d) * 100 + RoundHalfEven((n % d) * 100, d)

\* the line printed for ticker value a against benchmark value b # 0
ExpectedLine(a, b) ==
    LET diff == a.n * b.d - b.n * a.d
    IN [absolute_diff |-> [txt |-> "num", hundredths |-> Hundredths(diff, a.d * b.d)],
        relative_diff_pct |->
            [txt |-> "num", hundredths |-> Hundredths(diff * 100, a.d * b.n)]]

\* C5: for a benchmark with final_value # 0 the comparison line reports
\* a - b and (a - b) / b * 100 to two decimals, a being the ticker's
\* final_value and b the benchmark's (SPY, respectively QQQ); for
\* a = 11104.76 and b = 11000.00 these are 104.76 and 0.95.
C5_ComparisonValues ==
    output.tag = "printed" =>
        LET a == stock_result.val.final_value
            spy == spy_result.val.final_value
            qqq == qqq_result.val.final_value
        IN /\ spy.n # 0 => output.vs_spy = ExpectedLine(a, spy)
           /\ qqq.n # 0 => output.vs_qqq = ExpectedLine(a, qqq)
           /\ (a = Fin(1110476, 100) /\ spy = Fin(11000, 1)) =>
                 /\ output.vs_spy.absolute_diff.hundredths = 10476
                 /\ output.vs_spy.relative_diff_pct.hundredths = 95

\* the comparison of 11104.76 against 11000.00 (SPY) and 2 (QQQ) is printed
C5_Witness ==
    /\ output.tag = "printed"
    /\ stock_result.val.final_value = Fin(1110476, 100)
    /\ spy_result.val.final_value = Fin(11000, 1)
    /\ qqq_result.val.final_value = Fin(2, 1)
    /\ output.vs_spy.absolute_diff.hundredths = 10476
    /\ output.vs_spy.relative_diff_pct.hundredths = 95

\* C8: across the fold the share count never decreases: after each
\* observation it is at least what it was before, it is unchanged by an
\* observation without dividend, and it is never below the initial purchase
\* initial_investment / series[0].close_price.
C8_SharesMonotone ==
    sim_pc \in {"fold", "done"} =>
        /\ Len(sim_trace) = sim_idx - 1
        /\ sim_trace[1].k = "fin"
        /\ sim_trace[1].n * sim_series[1].close_price
              = sim_investment * sim_trace[1].d
        /\ \A j \in 2..Len(sim_trace) :
              /\ FLe(sim_trace[j - 1], sim_trace[j])
              /\ FLe(sim_trace[1], sim_trace[j])
              /\ sim_series[j].dividend_per_share = 0
                    => sim_trace[j] = sim_trace[j - 1]
        /\ sim_acc.shares = sim_trace[Len(sim_trace)]
        /\ sim_pc = "done"
              => sim_result.val.total_shares = sim_trace[Len(sim_trace)]

\* a fold over three observations: no dividend, then a dividend that adds shares
C8_Witness ==
    /\ sim_pc = "done"
    /\ Len(sim_trace) = 3
    /\ sim_series[2].dividend_per_share = 0
    /\ sim_series[3].dividend_per_share > 0
    /\ sim_trace[2] = sim_trace[1]
    /\ ~FLe(sim_trace[3], sim_trace[2])

============================================================================
